---- MODULE Spec2Model ----
(***************************************************************************)
(* Model of BakModel.py: backup, validation, discovery and restore of      *)
(* Ollama model stores (a manifests tree plus a flat blobs directory).     *)
(*                                                                         *)
(* Strings are sequences of tokens, e.g. "sha256:aa" is                    *)
(* <<"sha256", ":", "aa">>, so that str.replace and str.split are real     *)
(* operations.  A directory of files is a function from file name (or      *)
(* relative path) to content whose DOMAIN is the set of existing files.    *)
(* A failed shutil.copy2 leaves the destination as it was.  A store's       *)
(* manifestsDir stands for its manifests/registry.ollama.ai/library path,  *)
(* which the program creates and walks as a whole; empty directories below *)
(* it are not kept.                                                        *)
(***************************************************************************)
EXTENDS Integers, Sequences, FiniteSets, TLC

\* ------------------------------------------------------------------ bounds
MaxTime == 1
\* backup and restore runs in one behaviour
MaxRuns == 2
\* copies that raise during one run
MaxFail == 1

\* ----------------------------------------------------------------- strings
StrReplace(s, old, new) == [i \in 1..Len(s) |-> IF s[i] = old THEN new ELSE s[i]]

RECURSIVE StrSplit(_, _)
StrSplit(s, sep) ==
    IF \A i \in 1..Len(s) : s[i] # sep
    THEN <<s>>
    ELSE LET k == CHOOSE i \in 1..Len(s) : s[i] = sep /\ \A j \in 1..(i-1) : s[j] # sep
         IN  <<SubSeq(s, 1, k-1)>> \o StrSplit(SubSeq(s, k+1, Len(s)), sep)

\* hashlib.sha256(content).hexdigest(), always lower case; blob contents are
\* c1 and c2
Sha256Hex(content) == CASE content = "c1" -> <<"aa">>
                        [] content = "c2" -> <<"bb">>
                        [] OTHER          -> <<"00">>

\* ------------------------------------------------------ partial functions
NoFiles == << >>
Put(f, k, v) == (k :> v) @@ f
Overlay(new, old) == new @@ old
Restrict(f, S) == [k \in (DOMAIN f) \cap S |-> f[k]]
Range(s) == {s[i] : i \in DOMAIN s}
Perms(S) == {p \in [1..Cardinality(S) -> S] : \A i, j \in DOMAIN p : i # j => p[i] # p[j]}

\* ------------------------------------------------------------------ paths
\* path of a manifest below manifests/registry.ollama.ai/library
get_manifest_path(model_name) == StrSplit(model_name, ":")

get_blob_file_path(digest) == StrReplace(digest, ":", "-")

\* datetime.now().strftime(...) has second resolution; now counts seconds
get_backup_dir(model_name, time) == StrReplace(model_name, ":", "-") \o <<"__", ToString(time)>>

\* --------------------------------------------------------------- universe
dA == <<"sha256", ":", "aa">>
dB == <<"sha256", ":", "bb">>
dU == <<"sha256", ":", "AA">>

\* a manifest file: text that json.load rejects, or a JSON object that may
\* lack the "config"/"digest" or "layers" keys, or a "digest" in some layer
NoDigest == <<"<absent>">>
BadJson == [json |-> FALSE, hasConfig |-> FALSE, config |-> NoDigest,
            hasLayers |-> FALSE, layers |-> << >>]
Doc(cfg, lays) == [json |-> TRUE, hasConfig |-> TRUE, config |-> cfg,
                   hasLayers |-> TRUE, layers |-> lays]
NoLayersDoc == [json |-> TRUE, hasConfig |-> TRUE, config |-> dA,
                hasLayers |-> FALSE, layers |-> << >>]
DocAB == Doc(dA, <<dB>>)
DocB == Doc(dB, << >>)
DocABU == Doc(dA, <<dB, dU>>)

\* two model names that differ only in the place of the colon
N1 == <<"phi", "-", "3", ":", "mini">>
N2 == <<"phi", ":", "3", "-", "mini">>
ModelNames == {N1, N2}

\* a store: the live store or one backup folder
Store(md, m, bd, b) == [manifestsDir |-> md, manifests |-> m, blobsDir |-> bd, blobs |-> b]
EmptyStore == Store(FALSE, NoFiles, FALSE, NoFiles)

VARIABLES live, root, now, runs, last

\* restore_mode: where the run stands and its local variables; restored is the
\* list of the folders restore_backup was called with, in the order of the calls
VARIABLES pc, selected_backups, check_hashes, valid_backups, invalid_backups,
          restore_invalid, restored

rmvars == <<pc, selected_backups, check_hashes, valid_backups, invalid_backups,
            restore_invalid, restored>>
vars == <<live, root, now, runs, last, rmvars>>


\* ------------------------------------------------------ reading manifests
\* manifest['config']['digest'] and layer['digest'] for layer in
\* manifest['layers'] raise KeyError when a key is absent
HasFields(doc) ==
    /\ doc.hasConfig /\ doc.config # NoDigest
    /\ doc.hasLayers /\ \A i \in DOMAIN doc.layers : doc.layers[i] # NoDigest

Digests(doc) == <<doc.config>> \o doc.layers

\* --------------------------------------------------------------- results
NoReport == [missing |-> {}, mismatches |-> {}, hashed |-> {}, examined |-> {}]

\* what the last call was, its inputs and what it returned or printed
NoName == << >>
NoResult ==
    [op |-> "init", folder |-> NoName, model |-> NoName, flag |-> FALSE,
     outcome |-> "ok", failManifests |-> {}, failBlobs |-> {}, report |-> NoReport,
     folders |-> {}, existed |-> FALSE, overwritten |-> {}, time |-> 0]

\* the exit status of the process after a call ended with this outcome
ExitCode(outcome) == IF outcome \in {"ok", "True", "False"} THEN 0 ELSE 1

\* ------------------------------------------------------------ validation
\* the hash loop of one manifest, lines 462-476: digests are compared in
\* order; digest.split(':')[1] raises IndexError on a digest without colon
RECURSIVE HashLoop(_, _, _, _)
HashLoop(set, digs, i, rep) ==
    IF i > Len(digs) THEN [rep |-> rep, raised |-> FALSE]
    ELSE LET digest == digs[i]
             parts == StrSplit(digest, ":")
         IN  IF Len(parts) < 2 THEN [rep |-> rep, raised |-> TRUE]
             ELSE LET expected_hash == parts[2]
                      actual_hash == Sha256Hex(set.blobs[get_blob_file_path(digest)])
                      rep1 == [rep EXCEPT !.hashed = @ \cup {digest}]
                  IN  IF actual_hash = expected_hash
                      THEN HashLoop(set, digs, i + 1, rep1)
                      ELSE HashLoop(set, digs, i + 1,
                             [rep1 EXCEPT !.mismatches = @ \cup
                                {[digest |-> digest, expected |-> expected_hash,
                                  actual |-> actual_hash]}])

\* the walk over the manifest files, lines 432-481, in the order os.walk
\* yields them
RECURSIVE ValidateWalk(_, _, _, _, _)
ValidateWalk(set, validate_hashes, order, i, rep) ==
    IF i > Len(order) THEN [outcome |-> "True", report |-> rep]
    ELSE LET manifest == set.manifests[order[i]]
             rep1 == [rep EXCEPT !.examined = @ \cup {order[i]}]
         IN  IF ~manifest.json THEN [outcome |-> "False", report |-> rep1]
             ELSE IF ~HasFields(manifest) THEN [outcome |-> "KeyError", report |-> rep1]
             ELSE LET digests == Digests(manifest)
                      miss == {d \in Range(digests) :
                                 get_blob_file_path(d) \notin DOMAIN set.blobs}
                      rep2 == [rep1 EXCEPT !.missing = @ \cup miss]
                  IN  IF miss # {} THEN [outcome |-> "False", report |-> rep2]
                      ELSE IF validate_hashes
                      THEN LET h == HashLoop(set, digests, 1, rep2)
                           IN  IF h.raised THEN [outcome |-> "IndexError", report |-> h.rep]
                               ELSE IF h.rep.mismatches # rep2.mismatches
                               THEN [outcome |-> "False", report |-> h.rep]
                               ELSE ValidateWalk(set, validate_hashes, order, i + 1, h.rep)
                      ELSE ValidateWalk(set, validate_hashes, order, i + 1, rep2)

validate_backup_folder_contents(set, validate_hashes, order) ==
    IF ~set.manifestsDir \/ ~set.blobsDir
    THEN [outcome |-> "False", report |-> NoReport]
    ELSE ValidateWalk(set, validate_hashes, order, 1, NoReport)


\* ---------------------------------------------------------------- backup
\* lines 146-155: the manifest file is copied into the backup folder old
\* (EmptyStore when the folder does not exist yet) unless the copy raises
copy_manifest(src, old, model_name, failManifest) ==
    LET path == get_manifest_path(model_name)
        made == [old EXCEPT !.manifestsDir = TRUE]
    IN  IF path \in DOMAIN src.manifests /\ ~failManifest
        THEN [made EXCEPT !.manifests = Put(@, path, src.manifests[path])]
        ELSE made

\* the loop over the digests ended by the first blob that is absent or whose
\* copy raises
RECURSIVE copy_blobs_stop_at_failure(_, _, _, _, _)
copy_blobs_stop_at_failure(src, set, digests, i, failBlobs) ==
    IF i > Len(digests) THEN [set |-> set, src |-> src]
    ELSE LET digest == digests[i]
             file == get_blob_file_path(digest)
         IN  IF file \in DOMAIN src.blobs /\ digest \notin failBlobs
             THEN copy_blobs_stop_at_failure(src,
                     [set EXCEPT !.blobs = Put(@, file, src.blobs[file])],
                     digests, i + 1, failBlobs)
             ELSE [set |-> set, src |-> src]

\* the loop over the digests with shutil.move in the place of shutil.copy2
RECURSIVE copy_blobs_move(_, _, _, _, _)
copy_blobs_move(src, set, digests, i, failBlobs) ==
    IF i > Len(digests) THEN [set |-> set, src |-> src]
    ELSE LET digest == digests[i]
             file == get_blob_file_path(digest)
         IN  IF file \in DOMAIN src.blobs /\ digest \notin failBlobs
             THEN copy_blobs_move(
                     [src EXCEPT !.blobs = Restrict(@, (DOMAIN @) \ {file})],
                     [set EXCEPT !.blobs = Put(@, file, src.blobs[file])],
                     digests, i + 1, failBlobs)
             ELSE copy_blobs_move(src, set, digests, i + 1, failBlobs)

\* the loop over the digests with the blob written under the digest itself,
\* the colon not replaced
RECURSIVE copy_blobs_raw_name(_, _, _, _, _)
copy_blobs_raw_name(src, set, digests, i, failBlobs) ==
    IF i > Len(digests) THEN [set |-> set, src |-> src]
    ELSE LET digest == digests[i]
             file == get_blob_file_path(digest)
         IN  IF file \in DOMAIN src.blobs /\ digest \notin failBlobs
             THEN copy_blobs_raw_name(src, [set EXCEPT !.blobs = Put(@, digest, src.blobs[file])],
                                      digests, i + 1, failBlobs)
             ELSE copy_blobs_raw_name(src, set, digests, i + 1, failBlobs)

\* lines 171-181: the loop over the digests; failBlobs are the copies that
\* raise.  The live store src is only read.
RECURSIVE copy_blobs(_, _, _, _, _)
copy_blobs(src, set, digests, i, failBlobs) ==
    IF i > Len(digests) THEN [set |-> set, src |-> src]
    ELSE LET digest == digests[i]
             file == get_blob_file_path(digest)
         IN  IF file \in DOMAIN src.blobs /\ digest \notin failBlobs
             THEN copy_blobs(src, [set EXCEPT !.blobs = Put(@, file, src.blobs[file])],
                             digests, i + 1, failBlobs)
             ELSE copy_blobs(src, set, digests, i + 1, failBlobs)

\* a run that takes an unloadable manifest for one without digests
backup_model_goes_on(src, old, model_name, failManifest, failBlobs) ==
    LET path == get_manifest_path(model_name)
        copied == copy_manifest(src, old, model_name, failManifest)
        digests == IF path \in DOMAIN src.manifests /\ src.manifests[path].json
                                                   /\ HasFields(src.manifests[path])
                   THEN Digests(src.manifests[path]) ELSE << >>
        done == copy_blobs(src, [copied EXCEPT !.blobsDir = TRUE], digests, 1, failBlobs)
    IN  [set |-> done.set, src |-> done.src, outcome |-> "ok"]

\* lines 143-185
backup_model(src, old, model_name, failManifest, failBlobs) ==
    LET path == get_manifest_path(model_name)
        copied == copy_manifest(src, old, model_name, failManifest)
    IN  IF path \notin DOMAIN src.manifests \/ ~src.manifests[path].json
        THEN [set |-> copied, src |-> src, outcome |-> "exit_manifest"]
        ELSE IF ~HasFields(src.manifests[path])
        THEN [set |-> copied, src |-> src, outcome |-> "KeyError"]
        ELSE LET digests == Digests(src.manifests[path])
                 done == copy_blobs(src, [copied EXCEPT !.blobsDir = TRUE], digests, 1, failBlobs)
             IN  [set |-> done.set, src |-> done.src, outcome |-> "ok"]

\* --------------------------------------------------------------- restore
\* a restore that leaves the files the target already has
restore_backup_keeps_existing(set, target, failManifests, failBlobs) ==
    LET t1 == IF set.manifestsDir
              THEN [target EXCEPT !.manifestsDir = TRUE,
                      !.manifests = Overlay(@, Restrict(set.manifests,
                                        (DOMAIN set.manifests) \ failManifests))]
              ELSE target
    IN  IF set.blobsDir
        THEN [t1 EXCEPT !.blobsDir = TRUE,
                !.blobs = Overlay(@, Restrict(set.blobs, (DOMAIN set.blobs) \ failBlobs))]
        ELSE t1

\* a restore that gives up the blobs once a manifest copy has raised, and
\* the manifests when the backup has no blobs folder
restore_backup_gives_up(set, target, failManifests, failBlobs) ==
    LET t1 == IF set.manifestsDir /\ set.blobsDir
              THEN [target EXCEPT !.manifestsDir = TRUE,
                      !.manifests = Overlay(Restrict(set.manifests,
                                        (DOMAIN set.manifests) \ failManifests), @)]
              ELSE target
    IN  IF set.blobsDir /\ failManifests = {}
        THEN [t1 EXCEPT !.blobsDir = TRUE,
                !.blobs = Overlay(Restrict(set.blobs, (DOMAIN set.blobs) \ failBlobs), @)]
        ELSE t1

\* lines 350-381; failManifests and failBlobs are the copies that raise
restore_backup(set, target, failManifests, failBlobs) ==
    LET t1 == IF set.manifestsDir
              THEN [target EXCEPT !.manifestsDir = TRUE,
                      !.manifests = Overlay(Restrict(set.manifests,
                                        (DOMAIN set.manifests) \ failManifests), @)]
              ELSE target
    IN  IF set.blobsDir
        THEN [t1 EXCEPT !.blobsDir = TRUE,
                !.blobs = Overlay(Restrict(set.blobs, (DOMAIN set.blobs) \ failBlobs), @)]
        ELSE t1

\* --------------------------------------------------------------- catalog
\* a discovery that looks for the manifests tree only
discover_by_manifests_only(backup_root) ==
    IF ~backup_root.isDir THEN [outcome |-> "ValueError_not_a_directory", folders |-> {}]
    ELSE LET valid_folders == {d \in DOMAIN backup_root.sets :
                                 backup_root.sets[d].manifestsDir}
         IN  IF valid_folders = {} THEN [outcome |-> "ValueError_no_valid_backups", folders |-> {}]
             ELSE [outcome |-> "ok", folders |-> valid_folders]

validate_and_get_valid_backups(backup_root) ==
    IF ~backup_root.isDir THEN [outcome |-> "ValueError_not_a_directory", folders |-> {}]
    ELSE LET valid_folders == {d \in DOMAIN backup_root.sets :
                                 /\ backup_root.sets[d].blobsDir
                                 /\ backup_root.sets[d].manifestsDir}
         IN  IF valid_folders = {} THEN [outcome |-> "ValueError_no_valid_backups", folders |-> {}]
             ELSE [outcome |-> "ok", folders |-> valid_folders]

\* lines 232-253: any unreadable manifest and any absent blob sets the flag,
\* whatever the order of the walk
have_missing_blob(set) ==
    \E p \in DOMAIN set.manifests :
       LET manifest == set.manifests[p]
       IN  \/ ~manifest.json
           \/ ~HasFields(manifest)
           \/ \E d \in Range(Digests(manifest)) :
                 get_blob_file_path(d) \notin DOMAIN set.blobs

\* os.listdir of an absent blobs folder raises before anything is returned
analyze_backup_folder(set) ==
    IF ~set.blobsDir THEN [outcome |-> "FileNotFoundError", structure_OK |-> FALSE,
                           have_missing_blob |-> FALSE, is_problematic |-> FALSE]
    ELSE LET structure_OK == set.manifestsDir /\ set.blobsDir
             missing == structure_OK /\ have_missing_blob(set)
         IN  [outcome |-> "ok", structure_OK |-> structure_OK,
              have_missing_blob |-> missing,
              is_problematic |-> ~structure_OK \/ missing]

\* lines 297-333: the folders the statistics and the analysis are run on
list_backups(backup_root) ==
    IF ~backup_root.isDir THEN [outcome |-> "exit_no_root", folders |-> {}]
    ELSE LET found == validate_and_get_valid_backups(backup_root)
         IN  IF found.outcome # "ok" THEN [outcome |-> found.outcome, folders |-> {}]
             ELSE IF \E f \in found.folders :
                        analyze_backup_folder(backup_root.sets[f]).outcome # "ok"
             THEN [outcome |-> "FileNotFoundError", folders |-> found.folders]
             ELSE [outcome |-> "ok", folders |-> found.folders]


\* ------------------------------------------------------------ the system
\* the blobs of the live store the serving tool left behind: every blob as
\* its digest says, one blob corrupt, or one blob absent
IntactBlobs ==
    (get_blob_file_path(dA) :> "c1") @@ (get_blob_file_path(dB) :> "c2")
                                     @@ (get_blob_file_path(dU) :> "c1")
InitBlobs ==
    { IntactBlobs,
      (get_blob_file_path(dA) :> "c2") @@ (get_blob_file_path(dB) :> "c2")
                                       @@ (get_blob_file_path(dU) :> "c1"),
      (get_blob_file_path(dA) :> "c1") @@ (get_blob_file_path(dU) :> "c1") }

\* a live store with the manifests of both models
LiveStore(m1, blobs) ==
    Store(TRUE, (get_manifest_path(N1) :> m1) @@ (get_manifest_path(N2) :> DocB), TRUE, blobs)

\* backup folders kept from earlier runs or put there by hand
OldNoManifests == Store(FALSE, NoFiles, TRUE, get_blob_file_path(dB) :> "c2")
OldOther == Store(TRUE, get_manifest_path(N1) :> DocB, TRUE, get_blob_file_path(dB) :> "c1")
NoRoot == [isDir |-> FALSE, sets |-> NoFiles]
OldRoot == [isDir |-> TRUE, sets |-> (<<"old">> :> OldOther) @@ (<<"bare">> :> OldNoManifests)]

\* before the first backup, or with backups of an earlier store to restore
\* into a store in use or into an empty directory
InitStores ==
    {<<LiveStore(m1, b), NoRoot>> : m1 \in {DocAB, DocABU}, b \in InitBlobs}
    \cup {<<LiveStore(m1, IntactBlobs), NoRoot>> : m1 \in {BadJson, NoLayersDoc}}
    \cup {<<LiveStore(DocAB, b), OldRoot>> : b \in InitBlobs}
    \cup {<<Store(TRUE, NoFiles, TRUE, NoFiles), OldRoot>>}

\* no run of restore_mode is under way
NotInRestoreMode ==
    /\ pc = "idle"
    /\ selected_backups = << >>
    /\ check_hashes = ""
    /\ valid_backups = << >>
    /\ invalid_backups = << >>
    /\ restore_invalid = ""
    /\ restored = << >>

Init ==
    /\ \E s \in InitStores : live = s[1] /\ root = s[2]
    /\ now = 0
    /\ runs = 0
    /\ last = NoResult
    /\ NotInRestoreMode

Tick ==
    /\ now < MaxTime
    /\ now' = now + 1
    /\ UNCHANGED <<live, root, runs, last>>
    /\ UNCHANGED rmvars

\* backup_model(model_name): OLLAMA_MODELS unset exits before anything is done
BackupModel(model_name, ollama_base, failManifest, failBlobs) ==
    LET backup_dir == get_backup_dir(model_name, now)
        existed == backup_dir \in DOMAIN root.sets
        old == IF existed THEN root.sets[backup_dir] ELSE EmptyStore
        r == backup_model(live, old, model_name, failManifest, failBlobs)
        call == [NoResult EXCEPT !.op = "backup", !.folder = backup_dir,
                                 !.model = model_name, !.existed = existed,
                                 !.time = now]
    IN  /\ runs' = runs + 1
        /\ now' = now
        /\ IF ollama_base = "unset"
           THEN /\ last' = [call EXCEPT !.outcome = "exit_env"]
                /\ UNCHANGED <<live, root>>
           ELSE /\ root' = [isDir |-> TRUE, sets |-> Put(root.sets, backup_dir, r.set)]
                /\ live' = r.src
                /\ last' = [call EXCEPT !.outcome = r.outcome,
                              !.failManifests = IF failManifest
                                                THEN {get_manifest_path(model_name)} ELSE {},
                              !.failBlobs = failBlobs]

\* the copies of a run that can raise: those the run attempts
Attempted(src, model_name) ==
    LET path == get_manifest_path(model_name)
    IN  IF path \in DOMAIN src.manifests /\ src.manifests[path].json
                                         /\ HasFields(src.manifests[path])
        THEN {d \in Range(Digests(src.manifests[path])) :
                 get_blob_file_path(d) \in DOMAIN src.blobs}
        ELSE {}

Backup ==
    /\ runs < MaxRuns
    /\ \E model_name \in ModelNames :
        \/ BackupModel(model_name, "unset", FALSE, {})
        \/ \E failManifest \in {FALSE, get_manifest_path(model_name) \in DOMAIN live.manifests},
              failBlobs \in SUBSET Attempted(live, model_name) :
               /\ Cardinality(failBlobs) + (IF failManifest THEN 1 ELSE 0) <= MaxFail
               /\ BackupModel(model_name, "set", failManifest, failBlobs)
    /\ UNCHANGED rmvars

\* restore_backup(backup_dir, ollama_base) into the live store
RestoreBackup(backup_dir, failManifests, failBlobs) ==
    LET set == root.sets[backup_dir]
        differs(from, to) == {f \in DOMAIN from : f \in DOMAIN to /\ to[f] # from[f]}
    IN  /\ runs' = runs + 1
        /\ live' = restore_backup(set, live, failManifests, failBlobs)
        /\ last' = [NoResult EXCEPT !.op = "restore", !.folder = backup_dir,
                      !.failManifests = failManifests, !.failBlobs = failBlobs,
                      !.existed = TRUE,
                      !.overwritten = IF set.blobsDir
                                      THEN differs(set.blobs, live.blobs) \ failBlobs
                                      ELSE {}]
        /\ UNCHANGED <<root, now>>

Restore ==
    /\ runs < MaxRuns
    /\ \E backup_dir \in DOMAIN root.sets :
       \E failManifests \in SUBSET DOMAIN root.sets[backup_dir].manifests,
          failBlobs \in SUBSET DOMAIN root.sets[backup_dir].blobs :
            /\ Cardinality(failManifests) + Cardinality(failBlobs) <= MaxFail
            /\ RestoreBackup(backup_dir, failManifests, failBlobs)
    /\ UNCHANGED rmvars

\* validate_backup_folder_contents(backup_folder, validate_hashes)
ValidateFolder(backup_folder, validate_hashes, order) ==
    LET r == validate_backup_folder_contents(root.sets[backup_folder], validate_hashes, order)
    IN  /\ last' = [NoResult EXCEPT !.op = "validate", !.folder = backup_folder,
                      !.flag = validate_hashes, !.outcome = r.outcome,
                      !.report = r.report, !.existed = TRUE]
        /\ UNCHANGED <<live, root, now, runs>>

Validate ==
    /\ \E backup_folder \in DOMAIN root.sets, validate_hashes \in BOOLEAN :
          \E order \in Perms(DOMAIN root.sets[backup_folder].manifests) :
             ValidateFolder(backup_folder, validate_hashes, order)
    /\ UNCHANGED rmvars

Discover ==
    LET r == validate_and_get_valid_backups(root)
    IN  /\ last' = [NoResult EXCEPT !.op = "discover", !.outcome = r.outcome,
                      !.folders = r.folders]
        /\ UNCHANGED <<live, root, now, runs>>
        /\ UNCHANGED rmvars

ListBackups ==
    LET r == list_backups(root)
    IN  /\ last' = [NoResult EXCEPT !.op = "list", !.outcome = r.outcome,
                      !.folders = r.folders]
        /\ UNCHANGED <<live, root, now, runs>>
        /\ UNCHANGED rmvars

\* analyze_backup_folder(folder); flag is the 'is_problematic' of the result
Analyze ==
    \E folder \in DOMAIN root.sets :
       LET r == analyze_backup_folder(root.sets[folder])
       IN  /\ last' = [NoResult EXCEPT !.op = "analyze", !.folder = folder,
                         !.outcome = r.outcome, !.flag = r.is_problematic,
                         !.existed = TRUE]
           /\ UNCHANGED <<live, root, now, runs>>
           /\ UNCHANGED rmvars

Next == Tick \/ Backup \/ Restore \/ Validate \/ Discover \/ ListBackups \/ Analyze

Spec == Init /\ [][Next]_vars

TypeOK == now \in 0..MaxTime /\ runs \in 0..MaxRuns

\* ----------------------------------------------------------- restore_mode
\* the most numbers typed at the selection prompt
MaxSel == 2

RECURSIVE SortedSet(_)
SortedSet(S) ==
    IF S = {} THEN << >>
    ELSE LET least == CHOOSE x \in S : \A y \in S : x <= y
         IN  <<least>> \o SortedSet(S \ {least})

\* lines 105-126 for one typed line: 'q', 'a' or numbers between commas
get_multiple_selections(total_count, selection) ==
    IF selection.key = "q" THEN [outcome |-> "exit", indices |-> << >>]
    ELSE IF selection.key = "a"
    THEN [outcome |-> "ok", indices |-> [i \in 1..total_count |-> i - 1]]
    ELSE IF \A i \in DOMAIN selection.indices :
               0 <= selection.indices[i] /\ selection.indices[i] < total_count
    THEN [outcome |-> "ok", indices |-> SortedSet(Range(selection.indices))]
    ELSE [outcome |-> "again", indices |-> << >>]

\* lines 335-341
get_backup_selection(backup_folders, selection) ==
    LET r == get_multiple_selections(Len(backup_folders), selection)
    IN  [outcome |-> r.outcome,
         folders |-> [i \in DOMAIN r.indices |-> backup_folders[r.indices[i] + 1]]]

\* what can be typed at the selection prompt when total_count are listed
Selections(total_count) ==
    {[key |-> k, indices |-> << >>] : k \in {"q", "a"}}
    \cup {[key |-> "numbers", indices |-> idx] :
             idx \in UNION {[1..n -> 0..total_count] : n \in 1..MaxSel}}

\* backup folders written by backup_model: a complete one, one whose source
\* lacked a blob, and one two runs of the same second wrote into, the first
\* for a manifest without layers
SourceAB == LiveStore(DocAB, IntactBlobs)
SourceShort ==
    LiveStore(DocAB, (get_blob_file_path(dA) :> "c1") @@ (get_blob_file_path(dU) :> "c1"))
SourceNoLayers == LiveStore(NoLayersDoc, IntactBlobs)
GoodSet == backup_model(SourceAB, EmptyStore, N1, FALSE, {}).set
ShortSet == backup_model(SourceShort, EmptyStore, N1, FALSE, {}).set
SharedSet ==
    backup_model(SourceNoLayers,
                 backup_model(SourceNoLayers, EmptyStore, N1, FALSE, {}).set,
                 N2, FALSE, {}).set

RestoreModeRoots ==
    { NoRoot,
      OldRoot,
      [isDir |-> TRUE,
       sets |-> (get_backup_dir(N1, 0) :> GoodSet) @@ (get_backup_dir(N1, 1) :> ShortSet)
                @@ OldRoot.sets],
      [isDir |-> TRUE,
       sets |-> (get_backup_dir(N1, 0) :> GoodSet) @@ (get_backup_dir(N1, 1) :> SharedSet)
                @@ (<<"old">> :> OldOther)] }

InitRestoreMode ==
    /\ live \in {Store(TRUE, NoFiles, TRUE, NoFiles), SourceAB}
    /\ root \in RestoreModeRoots
    /\ now = 0
    /\ runs = 0
    /\ last = NoResult
    /\ pc = "path"
    /\ selected_backups = << >>
    /\ check_hashes = ""
    /\ valid_backups = << >>
    /\ invalid_backups = << >>
    /\ restore_invalid = ""
    /\ restored = << >>

\* lines 505-527: the path prompt comes back while the discovery raises
EnterBackupPath ==
    LET found == validate_and_get_valid_backups(root)
    IN  /\ pc = "path"
        /\ pc' = IF found.outcome = "ok" THEN "select" ELSE "path"
        /\ last' = [NoResult EXCEPT !.op = "discover", !.outcome = found.outcome,
                      !.folders = found.folders]
        /\ UNCHANGED <<live, root, now, runs, selected_backups, check_hashes,
                       valid_backups, invalid_backups, restore_invalid, restored>>

\* lines 529-570: the list (in the order of the sizes, any order here), the
\* selection and the destination, which is the live store
SelectBackups ==
    LET listed == list_backups(root)
    IN  /\ pc = "select"
        /\ last' = [NoResult EXCEPT !.op = "list", !.outcome = listed.outcome,
                      !.folders = listed.folders]
        /\ IF listed.outcome # "ok"
           THEN pc' = "crashed" /\ UNCHANGED selected_backups
           ELSE \E backup_folders \in Perms(listed.folders) :
                \E selection \in Selections(Len(backup_folders)) :
                   LET r == get_backup_selection(backup_folders, selection)
                   IN  /\ pc' = CASE r.outcome = "exit" -> "done"
                                  [] r.outcome = "again" -> "select"
                                  [] OTHER -> "hashes"
                       /\ selected_backups' = r.folders
        /\ UNCHANGED <<live, root, now, runs, check_hashes, valid_backups,
                       invalid_backups, restore_invalid, restored>>

\* lines 572-577: the answer in lower case; the prompt comes back on any
\* other answer than 'y' and 'n'
AskHashes ==
    /\ pc = "hashes"
    /\ \E answer \in {"y", "n", "", "yes"} :
          /\ check_hashes' = answer
          /\ pc' = IF answer \in {"y", "n"}
                   THEN (IF selected_backups = << >> THEN "done" ELSE "validate")
                   ELSE "hashes"
    /\ UNCHANGED <<live, root, now, runs, last, selected_backups, valid_backups,
                   invalid_backups, restore_invalid, restored>>

\* where the run goes once the selected backups are validated and once the
\* valid ones are restored (lines 590-598)
AfterValidation(valid, invalid) ==
    IF valid # << >> THEN "restore_valid"
    ELSE IF invalid # << >> THEN "ask_invalid" ELSE "done"

\* lines 582-588, one turn of the loop; an exception of the validation ends
\* the run
ValidateSelected ==
    /\ pc = "validate"
    /\ LET selected_backup == selected_backups[Len(valid_backups) + Len(invalid_backups) + 1]
       IN  \E order \in Perms(DOMAIN root.sets[selected_backup].manifests) :
              /\ ValidateFolder(selected_backup, check_hashes = "y", order)
              /\ valid_backups' = IF last'.outcome = "True"
                                  THEN Append(valid_backups, selected_backup)
                                  ELSE valid_backups
              /\ invalid_backups' = IF last'.outcome = "False"
                                    THEN Append(invalid_backups, selected_backup)
                                    ELSE invalid_backups
              /\ pc' = IF last'.outcome \notin {"True", "False"} THEN "crashed"
                       ELSE IF Len(valid_backups') + Len(invalid_backups')
                                  < Len(selected_backups)
                       THEN "validate"
                       ELSE AfterValidation(valid_backups', invalid_backups')
    /\ UNCHANGED <<selected_backups, check_hashes, restore_invalid, restored>>

\* the copies of a restore that can raise
RestoreFailures(backup_dir) ==
    {f \in (SUBSET DOMAIN root.sets[backup_dir].manifests)
              \X (SUBSET DOMAIN root.sets[backup_dir].blobs) :
        Cardinality(f[1]) + Cardinality(f[2]) <= MaxFail}

\* lines 591-595, one turn of the loop
RestoreValid ==
    /\ pc = "restore_valid"
    /\ LET valid_backup == valid_backups[Len(restored) + 1]
       IN  \E f \in RestoreFailures(valid_backup) : RestoreBackup(valid_backup, f[1], f[2])
    /\ restored' = Append(restored, valid_backups[Len(restored) + 1])
    /\ pc' = IF Len(restored') < Len(valid_backups) THEN "restore_valid"
             ELSE AfterValidation(<< >>, invalid_backups)
    /\ UNCHANGED <<selected_backups, check_hashes, valid_backups, invalid_backups,
                   restore_invalid>>

\* lines 598-609: the answer in lower case, empty for 'n'
AskRestoreInvalid ==
    /\ pc = "ask_invalid"
    /\ \E answer \in {"", "n", "y", "yes"} :
          /\ restore_invalid' = IF answer = "" THEN "n" ELSE answer
          /\ pc' = CASE answer = "y" -> "restore_invalid"
                     [] answer \in {"", "n"} -> "done"
                     [] OTHER -> "ask_invalid"
    /\ UNCHANGED <<live, root, now, runs, last, selected_backups, check_hashes,
                   valid_backups, invalid_backups, restored>>

\* lines 611-615, one turn of the loop
RestoreInvalid ==
    /\ pc = "restore_invalid"
    /\ LET invalid_backup == invalid_backups[Len(restored) - Len(valid_backups) + 1]
       IN  /\ \E f \in RestoreFailures(invalid_backup) :
                 RestoreBackup(invalid_backup, f[1], f[2])
           /\ restored' = Append(restored, invalid_backup)
    /\ pc' = IF Len(restored') < Len(valid_backups) + Len(invalid_backups)
             THEN "restore_invalid" ELSE "done"
    /\ UNCHANGED <<selected_backups, check_hashes, valid_backups, invalid_backups,
                   restore_invalid>>

NextRestoreMode ==
    \/ EnterBackupPath
    \/ SelectBackups
    \/ AskHashes
    \/ ValidateSelected
    \/ RestoreValid
    \/ AskRestoreInvalid
    \/ RestoreInvalid

SpecRestoreMode == InitRestoreMode /\ [][NextRestoreMode]_vars

\* ------------------------------------------------------------ the claims
\* the folder the last call was about
LastSet == root.sets[last.folder]

Validated == last.op = "validate" /\ LastSet.manifestsDir /\ LastSet.blobsDir

Loadable(manifest) == manifest.json /\ HasFields(manifest)

\* the digests of a folder's manifest files whose blob file is absent
MissingIn(set) ==
    UNION { {d \in Range(Digests(set.manifests[p])) :
                get_blob_file_path(d) \notin DOMAIN set.blobs} :
            p \in {q \in DOMAIN set.manifests : Loadable(set.manifests[q])} }

\* hex digits come in two cases
Lower(tok) == CASE tok = "AA" -> "aa"
                [] tok = "BB" -> "bb"
                [] OTHER      -> tok
StrLower(s) == [i \in 1..Len(s) |-> Lower(s[i])]

\* the hash of another algorithm a digest may declare
Sha512Hex(content) == CASE content = "c1" -> <<"bb">>
                        [] content = "c2" -> <<"aa">>
                        [] OTHER          -> <<"00">>

\* the hash of a blob under the algorithm its digest declares
DeclaredHex(digest, content) ==
    IF StrSplit(digest, ":")[1] = <<"sha512">> THEN Sha512Hex(content) ELSE Sha256Hex(content)

\* the blob of the digest has the content the digest declares, hex compared
\* without regard to case
MatchesDigest(set, digest) ==
    StrLower(DeclaredHex(digest, set.blobs[get_blob_file_path(digest)]))
        = StrLower(StrSplit(digest, ":")[2])

Reported(report) == {m.digest : m \in report.mismatches}

\* C1: validation is exhaustive. In a structurally valid folder whose manifest
\* files all load, every manifest file is examined, the digests reported
\* missing are exactly the referenced digests without a blob file, and with
\* hash validation on, every referenced blob that is present and does not
\* match its digest is reported as a mismatch.
C1_ValidationExhaustive ==
    (Validated /\ \A p \in DOMAIN LastSet.manifests : Loadable(LastSet.manifests[p]))
    => /\ last.report.examined = DOMAIN LastSet.manifests
       /\ last.report.missing = MissingIn(LastSet)
       /\ last.flag =>
            \A p \in DOMAIN LastSet.manifests :
               \A d \in Range(Digests(LastSet.manifests[p])) :
                  (get_blob_file_path(d) \in DOMAIN LastSet.blobs /\ ~MatchesDigest(LastSet, d))
                  => d \in Reported(last.report)

\* the digests every manifest file of the folder references, as far as the
\* file names them
Referenced(set) ==
    UNION { Range(Digests(set.manifests[p])) \ {NoDigest} : p \in DOMAIN set.manifests }

\* C2: the validation returns a result for every folder, and the result is
\* passing exactly when the folder has the manifests tree and the blobs
\* folder, no referenced digest lacks its blob file and, with hash validation
\* on, no referenced blob has another SHA-256 than its digest names.
C2_PassingIff ==
    last.op = "validate"
    => /\ last.outcome \in {"True", "False"}
       /\ last.outcome = "True" <=>
            /\ LastSet.manifestsDir /\ LastSet.blobsDir
            /\ \A d \in Referenced(LastSet) : get_blob_file_path(d) \in DOMAIN LastSet.blobs
            /\ last.flag =>
                 \A d \in Referenced(LastSet) :
                    Sha256Hex(LastSet.blobs[get_blob_file_path(d)]) = StrSplit(d, ":")[2]

\* C3: with hash validation on, of a manifest file whose blobs are all
\* present, a digest is reported as a mismatch exactly when the hash of its
\* blob under the declared algorithm differs from the digest's hex, compared
\* without regard to case; the report carries the expected and the actual
\* hex, and every digest of the manifest file is compared.
C3_HashVerification ==
    (Validated /\ last.flag)
    => \A p \in last.report.examined :
          LET manifest == LastSet.manifests[p]
          IN  (Loadable(manifest) /\ \A d \in Range(Digests(manifest)) :
                                        get_blob_file_path(d) \in DOMAIN LastSet.blobs)
              => \A d \in Range(Digests(manifest)) :
                    /\ d \in last.report.hashed
                    /\ d \in Reported(last.report) <=> ~MatchesDigest(LastSet, d)
                    /\ \A m \in last.report.mismatches :
                          m.digest = d =>
                             /\ m.expected = StrSplit(d, ":")[2]
                             /\ m.actual = DeclaredHex(d, LastSet.blobs[get_blob_file_path(d)])

\* the manifest file of the model in the live store the last backup read
SourceManifest == live.manifests[get_manifest_path(last.model)]

BackedUp == last.op = "backup" /\ last.outcome = "ok"

\* the blob of the digest is in the store and its SHA-256 is the digest's hex
HashMatches(store, digest) ==
    /\ get_blob_file_path(digest) \in DOMAIN store.blobs
    /\ Sha256Hex(store.blobs[get_blob_file_path(digest)]) = StrSplit(digest, ":")[2]

\* os.remove of one blob file of a folder
RemoveBlob(set, digest) ==
    [set EXCEPT !.blobs = Restrict(@, (DOMAIN @) \ {get_blob_file_path(digest)})]

\* the new folder holds the manifest and every referenced blob, validation
\* with hashes passes, and without one referenced blob it fails and reports
\* that digest alone
RoundTrips ==
    LET path == get_manifest_path(last.model)
        digests == Range(Digests(SourceManifest))
    IN  /\ path \in DOMAIN LastSet.manifests /\ LastSet.manifests[path] = SourceManifest
        /\ \A d \in digests : get_blob_file_path(d) \in DOMAIN LastSet.blobs
        /\ \A order \in Perms(DOMAIN LastSet.manifests) :
              /\ validate_backup_folder_contents(LastSet, TRUE, order).outcome = "True"
              /\ \A d \in digests :
                    LET r == validate_backup_folder_contents(RemoveBlob(LastSet, d), TRUE, order)
                    IN  r.outcome = "False" /\ r.report.missing = {d}

SourceIntact == \A d \in Range(Digests(SourceManifest)) : HashMatches(live, d)

C4_RoundTripNoFailure ==
    (BackedUp /\ SourceIntact /\ last.failManifests = {} /\ last.failBlobs = {})
    => RoundTrips

Restored == last.op = "restore"

\* C5: after a restore in which no copy raised, every manifest file and every
\* blob file of the backup folder is in the live store with the backup's
\* content, whatever the live store held before under that name.
C5_RestoreOverwrites ==
    (Restored /\ last.failManifests = {} /\ last.failBlobs = {})
    => /\ LastSet.manifestsDir =>
            \A p \in DOMAIN LastSet.manifests :
               p \in DOMAIN live.manifests /\ live.manifests[p] = LastSet.manifests[p]
       /\ LastSet.blobsDir =>
            \A f \in DOMAIN LastSet.blobs :
               f \in DOMAIN live.blobs /\ live.blobs[f] = LastSet.blobs[f]

\* a second restore has replaced a blob that the live store held with other
\* content
C5_Witness ==
    /\ Restored /\ last.failManifests = {} /\ last.failBlobs = {}
    /\ last.overwritten # {} /\ runs = 2

\* a backup run that got as far as reading the manifest file of its model
BackupRan ==
    /\ last.op = "backup" /\ last.outcome # "exit_env"
    /\ get_manifest_path(last.model) \in DOMAIN live.manifests

\* the names of the blobs a backup run had to copy: referenced, in the live
\* store, and their copy did not raise
Copyable ==
    {get_blob_file_path(d) : d \in {e \in Range(Digests(SourceManifest)) :
        get_blob_file_path(e) \in DOMAIN live.blobs /\ e \notin last.failBlobs}}

C8_LiveStoreUntouched ==
    [][ (runs' = runs + 1 /\ last'.op = "backup") => live' = live ]_vars

\* a run has copied blobs out of the live store
C8_Witness ==
    /\ BackedUp /\ last.failManifests = {} /\ last.failBlobs = {}
    /\ DOMAIN LastSet.blobs # {}

\* C9: a restore completes whatever copies raise, and every manifest file and
\* blob file of the backup folder whose copy did not raise is in the live
\* store with the backup's content, also when the backup has no manifests
\* tree or no blobs folder.
C9_RestoreBestEffort ==
    Restored
    => /\ last.outcome = "ok"
       /\ \A p \in (DOMAIN LastSet.manifests) \ last.failManifests :
             p \in DOMAIN live.manifests /\ live.manifests[p] = LastSet.manifests[p]
       /\ \A f \in (DOMAIN LastSet.blobs) \ last.failBlobs :
             f \in DOMAIN live.blobs /\ live.blobs[f] = LastSet.blobs[f]

\* the copy of a manifest file raised and the backup has blobs
C9_Witness ==
    /\ Restored /\ last.failManifests # {} /\ DOMAIN LastSet.blobs # {}

\* the folders of the root with the manifests registry path and a blobs folder
WellFormed == {d \in DOMAIN root.sets : root.sets[d].manifestsDir /\ root.sets[d].blobsDir}

\* C10: discovery returns exactly the folders of the root that have both the
\* manifests registry path and a blobs folder and raises the no-valid-backups
\* error when there is none; list_backups never runs the statistics or the
\* analysis on a folder without a blobs folder.
C10_Discovery ==
    /\ (last.op = "discover" /\ root.isDir)
       => IF WellFormed = {} THEN last.outcome = "ValueError_no_valid_backups"
          ELSE last.outcome = "ok" /\ last.folders = WellFormed
    /\ last.op = "list"
       => /\ last.outcome # "FileNotFoundError"
          /\ \A f \in last.folders : root.sets[f].blobsDir

\* discovery has left out a folder without blobs folder
C10_Witness ==
    /\ last.op = "discover" /\ last.outcome = "ok"
    /\ \E d \in DOMAIN root.sets : ~root.sets[d].blobsDir /\ d \notin last.folders

\* C11: the analysis of a backup folder returns, and its 'is_problematic' is
\* true exactly when the validation of the folder without hashes does not
\* pass, in whatever order the manifest files are walked.
C11_CatalogAgreesWithValidator ==
    last.op = "analyze"
    => /\ last.outcome = "ok"
       /\ \A order \in Perms(DOMAIN LastSet.manifests) :
             last.flag <=>
                validate_backup_folder_contents(LastSet, FALSE, order).outcome # "True"

\* the same for the folders that have a blobs folder
C11_AgreesWhereBlobsFolder ==
    (last.op = "analyze" /\ LastSet.blobsDir)
    => /\ last.outcome = "ok"
       /\ \A order \in Perms(DOMAIN LastSet.manifests) :
             last.flag <=>
                validate_backup_folder_contents(LastSet, FALSE, order).outcome # "True"

\* two backup runs made one after the other, both past the environment check
TwoBackupRuns ==
    /\ runs' = runs + 1
    /\ last.op = "backup" /\ last.outcome # "exit_env"
    /\ last'.op = "backup" /\ last'.outcome # "exit_env"

\* C12: two backup runs whose (model name, time in seconds) pairs differ write
\* into different backup folders, and the later run leaves the folder of the
\* earlier one as it was.
C12_NameAndTimeAreAKey ==
    [][ (TwoBackupRuns /\ <<last.model, last.time>> # <<last'.model, last'.time>>)
        => /\ last'.folder # last.folder
           /\ root'.sets[last.folder] = root.sets[last.folder] ]_vars

\* the same for the pairs that differ after ':' is replaced by '-' in the name
C12_FlattenedNameAndTimeAreAKey ==
    [][ (TwoBackupRuns /\ <<StrReplace(last.model, ":", "-"), last.time>>
                           # <<StrReplace(last'.model, ":", "-"), last'.time>>)
        => /\ last'.folder # last.folder
           /\ root'.sets[last.folder] = root.sets[last.folder] ]_vars

\* the last call was a backup run ended by its source manifest: the parse
\* failure caught at lines 160-162, or the KeyError of lines 165-166
AbortedOnManifest == last.op = "backup" /\ last.outcome \in {"exit_manifest", "KeyError"}

\* C14: after a backup run that its source manifest ended, the backup folder
\* of the run has no blobs folder and is not among the folders the discovery
\* returns.
C14_AbortLeavesNothingDiscoverable ==
    AbortedOnManifest
    => /\ ~LastSet.blobsDir
       /\ last.folder \notin validate_and_get_valid_backups(root).folders

\* the same for the runs whose backup folder did not exist before the run
C14_AbortInNewFolder ==
    (AbortedOnManifest /\ ~last.existed)
    => /\ ~LastSet.blobsDir
       /\ last.folder \notin validate_and_get_valid_backups(root).folders

\* the run of restore_mode is over: it returned, or an exception ended it
RestoreModeOver == pc \in {"done", "crashed"}

\* every selected backup is validated before the first restore_backup call
ValidatedBeforeRestore ==
    restored # << >>
    => Range(valid_backups) \cup Range(invalid_backups) = Range(selected_backups)

\* a backup whose validation failed is restored only on the answer 'y', and
\* after every backup whose validation passed
InvalidOnlyOnYesAndLast ==
    \A i \in DOMAIN restored :
       restored[i] \in Range(invalid_backups)
       => /\ restore_invalid = "y"
          /\ \A b \in Range(valid_backups) : \E j \in 1..(i - 1) : restored[j] = b

RestoredAtMostOnce ==
    \A i, j \in DOMAIN restored : restored[i] = restored[j] => i = j

\* C13: in restore_mode every selected backup is validated before the first
\* restore; when the run is over every backup whose validation passed has
\* been restored; a backup whose validation failed is restored only after the
\* answer 'y' and after all the passing ones; no backup is restored twice.
C13_RestoreModeOrder ==
    /\ ValidatedBeforeRestore
    /\ RestoreModeOver => Range(valid_backups) \subseteq Range(restored)
    /\ InvalidOnlyOnYesAndLast
    /\ RestoredAtMostOnce

\* the same, with the passing backups restored when the run returns
C13_RestoreModeOrderOnReturn ==
    /\ ValidatedBeforeRestore
    /\ pc = "done" => Range(valid_backups) \subseteq Range(restored)
    /\ InvalidOnlyOnYesAndLast
    /\ RestoredAtMostOnce

====
